---------------------------- MODULE Spec2Model ----------------------------
(***************************************************************************)
(* A model of src/index.js: a binary decision tree that is grown from a    *)
(* table of labelled rows (growDecisionTreeFrom), simplified in place      *)
(* (prune) and used to classify observations (classify).                   *)
(*                                                                         *)
(* JavaScript values are records with a "js" tag.  JavaScript numbers are  *)
(* modelled as exact reals of the form (c0 + c3*log2(3) + c5*log2(5) +     *)
(* c7*log2(7)) / d, which is closed under everything the program computes  *)
(* on tables of at most ten rows; IEEE-754 rounding is not modelled.       *)
(* Property keys are ordinary strings: the keys that Object.prototype      *)
(* treats specially ("__proto__", "hasOwnProperty") are outside the        *)
(* tables drawn here.                                                      *)
(***************************************************************************)
EXTENDS Integers, Sequences, FiniteSets, TLC

-----------------------------------------------------------------------------
(* JavaScript values: cells of a row, references, property keys *)

Num(n) == [js |-> "number", n |-> n, s |-> ""]
Str(s) == [js |-> "string", n |-> 0, s |-> s]
Null == [js |-> "null", n |-> 0, s |-> ""]
Undefined == [js |-> "undefined", n |-> 0, s |-> ""]

\* the decimal text of the small integers the tables hold
DecimalText == <<"1", "2", "3", "4", "5", "6", "7", "8", "9">>

\* String(v): the property key a value is used as
PropertyKey(v) ==
    CASE v.js = "number" -> IF v.n = 0 THEN "0" ELSE DecimalText[v.n]
      [] v.js = "string" -> v.s
      [] v.js = "null" -> "null"
      [] v.js = "undefined" -> "undefined"

\* Number(v) is NaN for a value this holds of
ToNumberIsNaN(v) ==
    CASE v.js = "number" -> FALSE
      [] v.js = "string" -> v.s # "" /\ \A i \in 1..Len(DecimalText) : DecimalText[i] # v.s
      [] v.js = "null" -> FALSE
      [] v.js = "undefined" -> TRUE

\* Number(v), where it is not NaN
ToNumber(v) ==
    CASE v.js = "number" -> v.n
      [] v.js = "string" -> IF v.s = "" THEN 0
                            ELSE CHOOSE i \in 1..Len(DecimalText) : DecimalText[i] = v.s
      [] v.js = "null" -> 0

\* isNumber(n): typeof n === 'number' && !Number.isNaN(n)
isNumber(v) == v.js = "number"

\* the truthiness of a value
Truthy(v) ==
    CASE v.js = "number" -> v.n # 0
      [] v.js = "string" -> v.s # ""
      [] v.js = "null" -> FALSE
      [] v.js = "undefined" -> FALSE
      [] OTHER -> TRUE

\* a === b on cells
StrictEquals(a, b) == a.js = b.js /\ a.n = b.n /\ a.s = b.s

\* a >= b on cells: both sides are converted to numbers, NaN compares false
GreaterEqual(a, b) ==
    /\ ~ToNumberIsNaN(a)
    /\ ~ToNumberIsNaN(b)
    /\ ToNumber(a) >= ToNumber(b)

-----------------------------------------------------------------------------
(* Evaluation order *)

\* body(value), the value computed once and before the body: how JavaScript
\* evaluates a const declaration or an argument
Let(value, body(_)) == CHOOSE result \in {body(v) : v \in {value}} : TRUE

-----------------------------------------------------------------------------
(* Exact real arithmetic: (c0 + c3*log2(3) + c5*log2(5) + c7*log2(7)) / d *)

RECURSIVE Gcd(_, _)
Gcd(a, b) == IF b = 0 THEN a ELSE Let(a % b, LAMBDA m : Gcd(b, m))

Abs(x) == IF x < 0 THEN -x ELSE x

\* the same number over the least denominator
RNorm(r) ==
    Let(r, LAMBDA x :
    Let(Gcd(Gcd(Gcd(Gcd(x.d, Abs(x.c0)), Abs(x.c3)), Abs(x.c5)), Abs(x.c7)), LAMBDA g :
        [d |-> x.d \div g, c0 |-> x.c0 \div g, c3 |-> x.c3 \div g,
         c5 |-> x.c5 \div g, c7 |-> x.c7 \div g]))

RFrac(a, b) == RNorm([d |-> b, c0 |-> a, c3 |-> 0, c5 |-> 0, c7 |-> 0])
RInt(a) == [d |-> 1, c0 |-> a, c3 |-> 0, c5 |-> 0, c7 |-> 0]
RZero == RInt(0)

RAdd(a, b) ==
    Let(a, LAMBDA x : Let(b, LAMBDA y :
        RNorm([d |-> x.d * y.d,
               c0 |-> x.c0 * y.d + y.c0 * x.d, c3 |-> x.c3 * y.d + y.c3 * x.d,
               c5 |-> x.c5 * y.d + y.c5 * x.d, c7 |-> x.c7 * y.d + y.c7 * x.d])))

RNeg(a) ==
    Let(a, LAMBDA x : [d |-> x.d, c0 |-> -x.c0, c3 |-> -x.c3, c5 |-> -x.c5, c7 |-> -x.c7])

RSub(a, b) == RAdd(a, RNeg(b))

IsRational(x) == x.c3 = 0 /\ x.c5 = 0 /\ x.c7 = 0

\* the product, one factor being rational (all the program multiplies)
RMul(a, b) ==
    Let(a, LAMBDA x : Let(b, LAMBDA y :
        IF IsRational(x)
        THEN RNorm([d |-> x.d * y.d, c0 |-> x.c0 * y.c0, c3 |-> x.c0 * y.c3,
                    c5 |-> x.c0 * y.c5, c7 |-> x.c0 * y.c7])
        ELSE RNorm([d |-> x.d * y.d, c0 |-> x.c0 * y.c0, c3 |-> x.c3 * y.c0,
                    c5 |-> x.c5 * y.c0, c7 |-> x.c7 * y.c0])))

\* the quotient of two rationals, the divisor not zero
RDiv(a, b) ==
    Let(a, LAMBDA x : Let(b, LAMBDA y :
        IF y.c0 > 0
        THEN RNorm([d |-> x.d * y.c0, c0 |-> x.c0 * y.d, c3 |-> 0, c5 |-> 0, c7 |-> 0])
        ELSE RNorm([d |-> x.d * (-y.c0), c0 |-> -(x.c0 * y.d), c3 |-> 0, c5 |-> 0,
                    c7 |-> 0])))

\* log2(3), log2(5) and log2(7) lie strictly between Lo/LogScale and (Lo+1)/LogScale
LogScale == 100000
Log3Lo == 158496
Log5Lo == 232192
Log7Lo == 280735

\* the least and the greatest value c*log2(p)*LogScale can have
LogTermLo(c, lo) == IF c >= 0 THEN c * lo ELSE c * (lo + 1)
LogTermHi(c, lo) == IF c >= 0 THEN c * (lo + 1) ELSE c * lo

\* -1, 0 or 1.  1, log2(3), log2(5), log2(7) are linearly independent over the
\* rationals, so the value is 0 only when every coefficient is; otherwise the
\* enclosing interval decides (and the CASE has no arm when it cannot).
RSign(a) ==
    Let(a, LAMBDA x :
    Let(x.c0 * LogScale + LogTermLo(x.c3, Log3Lo) + LogTermLo(x.c5, Log5Lo)
            + LogTermLo(x.c7, Log7Lo), LAMBDA lo :
    Let(x.c0 * LogScale + LogTermHi(x.c3, Log3Lo) + LogTermHi(x.c5, Log5Lo)
            + LogTermHi(x.c7, Log7Lo), LAMBDA hi :
        CASE IsRational(x) -> IF x.c0 > 0 THEN 1 ELSE IF x.c0 < 0 THEN -1 ELSE 0
          [] ~IsRational(x) /\ lo > 0 -> 1
          [] ~IsRational(x) /\ hi < 0 -> -1)))

RLess(x, y) == RSign(RSub(x, y)) < 0
RGreater(x, y) == RSign(RSub(x, y)) > 0
REqual(x, y) == RSign(RSub(x, y)) = 0

\* the exponent of the prime p in n >= 1
RECURSIVE PrimeExponent(_, _)
PrimeExponent(n, p) == IF n % p = 0 THEN 1 + PrimeExponent(n \div p, p) ELSE 0

\* Math.log2(a / b) for integers 1 <= a, b <= 10
Log2Ratio(a, b) ==
    [d |-> 1,
     c0 |-> PrimeExponent(a, 2) - PrimeExponent(b, 2),
     c3 |-> PrimeExponent(a, 3) - PrimeExponent(b, 3),
     c5 |-> PrimeExponent(a, 5) - PrimeExponent(b, 5),
     c7 |-> PrimeExponent(a, 7) - PrimeExponent(b, 7)]

\* the sum of the numbers f maps its domain to
RECURSIVE RSumMap(_)
RSumMap(f) ==
    Let(f, LAMBDA g :
        IF DOMAIN g = {} THEN RZero
        ELSE Let(CHOOSE x \in DOMAIN g : TRUE, LAMBDA k :
                 RAdd(g[k], RSumMap([x \in DOMAIN g \ {k} |-> g[x]]))))

-----------------------------------------------------------------------------
(* Rows, label counts and the three impurity metrics *)

\* row[row.length - 1]
Target(row) == row[Len(row)]

EmptyObject == [js |-> "object", map |-> <<>>]

\* a count that would set an entry to 1 and never add to it
CountOnce(results, r) ==
    [k \in DOMAIN results \cup {r} |-> IF k = r THEN 1 ELSE results[k]]

\* the loop body of uniqueCounts: one more row under the key r
CountOne(results, r) ==
    IF r \in DOMAIN results
    THEN [results EXCEPT ![r] = @ + 1]
    ELSE [k \in DOMAIN results \cup {r} |-> IF k = r THEN 1 ELSE results[k]]

\* results after the loop of uniqueCounts has counted the first n rows
RECURSIVE CountRows(_, _)
CountRows(rows, n) ==
    IF n = 0 THEN <<>>
    ELSE Let(CountRows(rows, n - 1), LAMBDA results :
         Let(PropertyKey(Target(rows[n])), LAMBDA r : CountOne(results, r)))

\* uniqueCounts(rows): an object mapping each label's key to its number of rows
uniqueCounts(rows) == [js |-> "object", map |-> CountRows(rows, Len(rows))]

\* what a call gives back: a value it returned or an exception it threw
Returned(v) == [thrown |-> FALSE, val |-> v]
Thrown(e) == [thrown |-> TRUE, val |-> e]

\* entropy(rows): minus the sum of p*log2(p) over the labels
entropy(rows) ==
    Let(uniqueCounts(rows).map, LAMBDA results :
    Let(Len(rows), LAMBDA length :
        Returned(RNeg(RSumMap([r \in DOMAIN results |->
            RMul(RFrac(results[r], length), Log2Ratio(results[r], length))])))))

\* gini(rows): the sum of p1*p2 over the ordered pairs of distinct labels
gini(rows) ==
    Let(Len(rows), LAMBDA total :
    Let(uniqueCounts(rows).map, LAMBDA counts :
        Returned(RSumMap([pr \in {q \in (DOMAIN counts) \X (DOMAIN counts) : q[1] # q[2]} |->
            RMul(RFrac(counts[pr[1]], total), RFrac(counts[pr[2]], total))]))))

\* sum(array) of numbers
RECURSIVE sum(_)
sum(array) ==
    Let(array, LAMBDA a :
        IF Len(a) = 0 THEN RZero
        ELSE RAdd(sum([i \in 1..(Len(a) - 1) |-> a[i]]), a[Len(a)]))

\* data.find(p => !isNumber(p)): the first element that is not a number
Find(data) ==
    Let({i \in 1..Len(data) : ~isNumber(data[i])}, LAMBDA notNumbers :
        IF notNumbers = {} THEN Undefined
        ELSE data[CHOOSE i \in notNumbers : \A j \in notNumbers : i <= j])

\* variance(rows): 0 for no rows; throws when find returns a truthy element;
\* else the mean squared deviation of the targets
variance(rows) ==
    IF Len(rows) = 0 THEN Returned(RZero)
    ELSE Let([i \in 1..Len(rows) |-> Target(rows[i])], LAMBDA data :
             IF Truthy(Find(data)) THEN Thrown("Error")
             ELSE Let([i \in 1..Len(data) |-> RInt(ToNumber(data[i]))], LAMBDA nums :
                  Let(RDiv(sum(nums), RInt(Len(nums))), LAMBDA mean :
                      Returned(RDiv(sum([i \in 1..Len(nums) |->
                                           RMul(RSub(nums[i], mean), RSub(nums[i], mean))]),
                                    RInt(Len(nums)))))))

\* EvaluationFunction: the metrics a caller can pass
EvaluationFunction == {"entropy", "gini", "variance"}

\* evaluationFunction(rows)
Evaluate(evaluationFunction, rows) ==
    CASE evaluationFunction = "entropy" -> entropy(rows)
      [] evaluationFunction = "gini" -> gini(rows)
      [] evaluationFunction = "variance" -> variance(rows)

-----------------------------------------------------------------------------
(* divideSet and the order in which split values are tried *)

\* the splitting function divideSet builds for `value`
Matches(row, column, value) ==
    IF isNumber(value) THEN GreaterEqual(row[column + 1], value)
    ELSE StrictEquals(row[column + 1], value)

\* divideSet(rows, column, value): <<the rows that match, the other rows>>
divideSet(rows, column, value) ==
    LET splittingFunction(row) == Matches(row, column, value)
    IN  <<SelectSeq(rows, splittingFunction),
          SelectSeq(rows, LAMBDA row : ~splittingFunction(row))>>

\* Array.from(new Set(values)) of the first n values: the distinct ones in
\* order of first appearance
RECURSIVE SetOrder(_, _)
SetOrder(values, n) ==
    IF n = 0 THEN <<>>
    ELSE Let(SetOrder(values, n - 1), LAMBDA seen :
             IF \E i \in 1..Len(seen) : StrictEquals(seen[i], values[n])
             THEN seen
             ELSE Append(seen, values[n]))

\* the comparator (a, b) => a - b as sort reads it: NaN counts as 0
Compare(a, b) ==
    IF ToNumberIsNaN(a) \/ ToNumberIsNaN(b) THEN 0 ELSE ToNumber(a) - ToNumber(b)

\* Array.prototype.sort on fewer than 64 elements (V8): the leading run is
\* found, a strictly descending one is reversed, and the elements after it are
\* inserted one by one at the place a binary search finds.
RECURSIVE RunLength(_, _, _)
RunLength(a, idx, isDescending) ==
    IF idx > Len(a) THEN Len(a)
    ELSE IF (isDescending /\ Compare(a[idx], a[idx - 1]) >= 0)
             \/ (~isDescending /\ Compare(a[idx], a[idx - 1]) < 0)
         THEN idx - 1
         ELSE RunLength(a, idx + 1, isDescending)

ReverseRange(a, n) == [i \in 1..Len(a) |-> IF i <= n THEN a[n + 1 - i] ELSE a[i]]

RECURSIVE BinarySearch(_, _, _, _)
BinarySearch(a, pivot, left, right) ==
    IF left >= right THEN left
    ELSE Let(left + ((right - left) \div 2), LAMBDA mid :
             IF Compare(pivot, a[mid]) < 0
             THEN BinarySearch(a, pivot, left, mid)
             ELSE BinarySearch(a, pivot, mid + 1, right))

\* a, its first n elements sorted
RECURSIVE BinaryInsertionSort(_, _, _)
BinaryInsertionSort(array, run, n) ==
    IF n <= run THEN array
    ELSE Let(BinaryInsertionSort(array, run, n - 1), LAMBDA a :
         Let(BinarySearch(a, a[n], 1, n), LAMBDA left :
             [i \in 1..Len(a) |->
                 IF i < left \/ i > n THEN a[i]
                 ELSE IF i = left THEN a[n] ELSE a[i - 1]]))

SortAscending(array) ==
    Let(array, LAMBDA a :
        IF Len(a) < 2 THEN a
        ELSE Let(Compare(a[2], a[1]) < 0, LAMBDA isDescending :
             Let(RunLength(a, 3, isDescending), LAMBDA run :
                 BinaryInsertionSort(IF isDescending THEN ReverseRange(a, run) ELSE a,
                                     run, Len(a)))))

\* lsUnique of a column
lsUnique(rows, col) ==
    SortAscending(SetOrder([i \in 1..Len(rows) |-> rows[i][col + 1]], Len(rows)))

-----------------------------------------------------------------------------
(* The tree and growDecisionTreeFrom *)

\* new DecisionTree({col, value, trueBranch, falseBranch, results, summary})
DecisionTree(col, value, trueBranch, falseBranch, results, summary) ==
    [js |-> "DecisionTree", col |-> col, value |-> value,
     trueBranch |-> trueBranch, falseBranch |-> falseBranch,
     results |-> results, summary |-> summary]

\* new DecisionTree: every field at the constructor's default
DefaultDecisionTree == DecisionTree(-1, Null, Undefined, Undefined, Null, EmptyObject)

\* dcY, the summary of a node over n rows.  Its impurity (the score's
\* toPrecision(3) text) is not modelled: nothing reads it back.
Summary(n) == [js |-> "object", map |-> [samples |-> Num(n)]]

\* obj[key], undefined for a key the object does not have
Get(obj, key) == IF key \in DOMAIN obj.map THEN obj.map[key] ELSE Undefined

\* the gain of the split `sets` of rows, as the search loop computes it
Gain(rows, evaluationFunction, currentScore, sets) ==
    Let(RFrac(Len(sets[1]), Len(rows)), LAMBDA p :
        RSub(RSub(currentScore, RMul(p, Evaluate(evaluationFunction, sets[1]).val)),
             RMul(RSub(RInt(1), p), Evaluate(evaluationFunction, sets[2]).val)))

\* the (col, value) pairs in the order the two nested loops try them
RECURSIVE Candidates(_, _)
Candidates(rows, col) ==
    IF col >= Len(rows[1]) - 1 THEN <<>>
    ELSE Let(lsUnique(rows, col), LAMBDA values :
             [i \in 1..Len(values) |-> <<col, values[i]>>] \o Candidates(rows, col + 1))

\* a search that would compare each gain with 0, not with the best so far
AcceptsAnyGain(gain, bestGain, sets) ==
    RGreater(gain, RZero) /\ Len(sets[1]) # 0 /\ Len(sets[2]) # 0

\* the test that makes a candidate the best one so far
Accepts(gain, bestGain, sets) ==
    RGreater(gain, bestGain) /\ Len(sets[1]) # 0 /\ Len(sets[2]) # 0

\* bestGain, bestAttribute and bestSets before the loops; the last two are
\* null in the program and read only after a candidate was accepted
NoSplit == [bestGain |-> RZero, bestAttribute |-> <<-1, Null>>, bestSets |-> <<<<>>, <<>>>>]

\* bestGain, bestAttribute and bestSets after the first n candidates
RECURSIVE SearchSplits(_, _, _, _, _)
SearchSplits(rows, evaluationFunction, currentScore, cands, n) ==
    IF n = 0 THEN NoSplit
    ELSE Let(SearchSplits(rows, evaluationFunction, currentScore, cands, n - 1), LAMBDA best :
         Let(divideSet(rows, cands[n][1], cands[n][2]), LAMBDA sets :
         Let(Gain(rows, evaluationFunction, currentScore, sets), LAMBDA gain :
             IF Accepts(gain, best.bestGain, sets)
             THEN [bestGain |-> gain, bestAttribute |-> cands[n], bestSets |-> sets]
             ELSE best)))

\* growDecisionTreeFrom(rows, evaluationFunction): the tree, or what the metric
\* threw.  A subset of rows the metric accepted is accepted too, and no score
\* of a table drawn here is NaN, so the only throw is the first score's.
RECURSIVE growDecisionTreeFrom(_, _)
growDecisionTreeFrom(table, evaluationFunction) ==
    Let(table, LAMBDA rows :
    IF Len(rows) = 0 THEN Returned(DefaultDecisionTree)
    ELSE Let(Evaluate(evaluationFunction, rows), LAMBDA currentScore :
         IF currentScore.thrown THEN currentScore
         ELSE Let(Candidates(rows, 0), LAMBDA cands :
              Let(SearchSplits(rows, evaluationFunction, currentScore.val, cands, Len(cands)),
                  LAMBDA best :
              Let(Summary(Len(rows)), LAMBDA dcY :
                  IF RGreater(best.bestGain, RZero)
                  THEN Let(growDecisionTreeFrom(best.bestSets[1], evaluationFunction), LAMBDA t :
                       Let(growDecisionTreeFrom(best.bestSets[2], evaluationFunction), LAMBDA f :
                           IF t.thrown THEN t
                           ELSE IF f.thrown THEN f
                           ELSE Returned(DecisionTree(best.bestAttribute[1],
                                    best.bestAttribute[2], t.val, f.val, Null, dcY))))
                  ELSE Returned(DecisionTree(-1, Null, Undefined, Undefined,
                                             uniqueCounts(rows), dcY)))))))

-----------------------------------------------------------------------------
(* prune *)

\* x.results can be read: x is an object, not undefined or null
IsObject(x) == x.js \notin {"undefined", "null", "number", "string"}

\* the rows [v] that prune makes of a leaf's entries: c rows per entry [v, c],
\* v being the entry's key, a string
RECURSIVE PseudoRows(_)
PseudoRows(entries) ==
    Let(entries, LAMBDA map :
        IF DOMAIN map = {} THEN <<>>
        ELSE Let(CHOOSE k \in DOMAIN map : TRUE, LAMBDA v :
                 [i \in 1..map[v] |-> <<Str(v)>>]
                     \o PseudoRows([k \in DOMAIN map \ {v} |-> map[k]])))

\* delta of a node whose children are the leaves with rows tb and fb, or what
\* the metric threw
Delta(tb, fb, evaluationFunction) ==
    Let(RFrac(Len(tb), Len(tb) + Len(fb)), LAMBDA p :
    Let(Evaluate(evaluationFunction, tb \o fb), LAMBDA all :
        IF all.thrown THEN all
        ELSE Let(Evaluate(evaluationFunction, tb), LAMBDA t :
             IF t.thrown THEN t
             ELSE Let(Evaluate(evaluationFunction, fb), LAMBDA f :
                  IF f.thrown THEN f
                  ELSE Returned(RSub(RSub(all.val, RMul(p, t.val)),
                                     RMul(RSub(RInt(1), p), f.val)))))))

\* a prune that would collapse at delta = minGain too
CollapsesAtThreshold(delta, minGain) == ~RGreater(delta, minGain)

\* the test that collapses a node
Collapses(delta, minGain) == RLess(delta, minGain)

\* a collapse that would keep the false branch
CollapseKeepingBranch(tree, tb, fb) ==
    [tree EXCEPT !.trueBranch = Null, !.results = uniqueCounts(tb \o fb)]

\* the three assignments that turn a node into a leaf
Collapse(tree, tb, fb) ==
    [tree EXCEPT !.trueBranch = Null, !.falseBranch = Null,
                 !.results = uniqueCounts(tb \o fb)]

\* what a call of prune leaves behind: what it threw ("" for nothing), the
\* node as the call left it, and one event per node it compared delta for
PruneResult(thrown, tree, events) == [thrown |-> thrown, tree |-> tree, events |-> events]

\* a node at the moment prune compared its delta, and the node right after
PruneEvent(path, node, delta, after) ==
    [path |-> path, node |-> node, delta |-> delta, after |-> after]

\* the body of prune's last if: compare delta with minGain, collapse below it
CollapseIfLow(tree, minGain, evaluationFunction, path, events) ==
    Let(PseudoRows(tree.trueBranch.results.map), LAMBDA tb :
    Let(PseudoRows(tree.falseBranch.results.map), LAMBDA fb :
    Let(Delta(tb, fb, evaluationFunction), LAMBDA delta :
        IF delta.thrown THEN PruneResult(delta.val, tree, events)
        ELSE Let(IF Collapses(delta.val, minGain) THEN Collapse(tree, tb, fb) ELSE tree,
                 LAMBDA after :
                 PruneResult("", after,
                             Append(events, PruneEvent(path, tree, delta.val, after)))))))

\* a prune that would leave a node alone once something below it was collapsed
PruneNodeOncePerBranch(tree, minGain, evaluationFunction, path, events) ==
    IF /\ Truthy(tree.trueBranch.results) /\ Truthy(tree.falseBranch.results)
       /\ \A i \in 1..Len(events) : events[i].after = events[i].node
    THEN CollapseIfLow(tree, minGain, evaluationFunction, path, events)
    ELSE PruneResult("", tree, events)

\* the last statement of prune, reached after both recursive calls: a node
\* whose children are leaves by now is compared and maybe collapsed
PruneNode(tree, minGain, evaluationFunction, path, events) ==
    IF Truthy(tree.trueBranch.results) /\ Truthy(tree.falseBranch.results)
    THEN CollapseIfLow(tree, minGain, evaluationFunction, path, events)
    ELSE PruneResult("", tree, events)

\* prune(tree, minGain, evaluationFunction) on the node at `path`; reading
\* .results of a child that is undefined or null throws a TypeError
RECURSIVE prune(_, _, _, _)
prune(node, minGain, evaluationFunction, path) ==
    Let(node, LAMBDA tree :
    IF ~IsObject(tree.trueBranch) THEN PruneResult("TypeError", tree, <<>>)
    ELSE Let(IF ~Truthy(tree.trueBranch.results)
             THEN prune(tree.trueBranch, minGain, evaluationFunction,
                        Append(path, "trueBranch"))
             ELSE PruneResult("", tree.trueBranch, <<>>), LAMBDA r1 :
         Let([tree EXCEPT !.trueBranch = r1.tree], LAMBDA tree1 :
             IF r1.thrown # "" THEN PruneResult(r1.thrown, tree1, r1.events)
             ELSE IF ~IsObject(tree1.falseBranch)
                  THEN PruneResult("TypeError", tree1, r1.events)
             ELSE Let(IF ~Truthy(tree1.falseBranch.results)
                      THEN prune(tree1.falseBranch, minGain, evaluationFunction,
                                 Append(path, "falseBranch"))
                      ELSE PruneResult("", tree1.falseBranch, <<>>), LAMBDA r2 :
                  Let([tree1 EXCEPT !.falseBranch = r2.tree], LAMBDA tree2 :
                      IF r2.thrown # ""
                      THEN PruneResult(r2.thrown, tree2, r1.events \o r2.events)
                      ELSE PruneNode(tree2, minGain, evaluationFunction, path,
                                     r1.events \o r2.events))))))

-----------------------------------------------------------------------------
(* classify *)

\* observations[col]
At(observations, col) ==
    IF col + 1 \in 1..Len(observations) THEN observations[col + 1] ELSE Undefined

\* the branch both classifiers take for a value v that is present
Branch(tree, v) ==
    IF isNumber(v)
    THEN IF GreaterEqual(v, tree.value) THEN tree.trueBranch ELSE tree.falseBranch
    ELSE IF StrictEquals(v, tree.value) THEN tree.trueBranch ELSE tree.falseBranch

\* a leaf's results as the mapping from label to number a caller receives
Distribution(results) == [k \in DOMAIN results.map |-> RInt(results.map[k])]

RECURSIVE classifyWithoutMissingData(_, _)
classifyWithoutMissingData(observations, node) ==
    Let(node, LAMBDA tree :
        IF ~IsObject(tree) THEN Thrown("TypeError")
        ELSE IF Truthy(tree.results) THEN Returned(Distribution(tree.results))
        ELSE classifyWithoutMissingData(observations,
                                        Branch(tree, At(observations, tree.col))))

\* a blend that would weight both sides by tw
BlendOneWeight(tr, fr, tw, fw) ==
    [k \in DOMAIN tr \cup DOMAIN fr |->
        RAdd(IF k \in DOMAIN tr THEN RMul(tr[k], tw) ELSE RZero,
             IF k \in DOMAIN fr THEN RMul(fr[k], tw) ELSE RZero)]

\* the two loops that add tr's entries weighted by tw and fr's weighted by fw
Blend(tr, fr, tw, fw) ==
    [k \in DOMAIN tr \cup DOMAIN fr |->
        RAdd(IF k \in DOMAIN tr THEN RMul(tr[k], tw) ELSE RZero,
             IF k \in DOMAIN fr THEN RMul(fr[k], fw) ELSE RZero)]

RECURSIVE classifyWithMissingData(_, _)
classifyWithMissingData(observations, node) ==
    Let(node, LAMBDA tree :
        IF ~IsObject(tree) THEN Thrown("TypeError")
        ELSE IF Truthy(tree.results) THEN Returned(Distribution(tree.results))
        ELSE Let(At(observations, tree.col), LAMBDA v :
             IF v.js = "null"
             THEN Let(classifyWithMissingData(observations, tree.trueBranch), LAMBDA tr :
                  Let(classifyWithMissingData(observations, tree.falseBranch), LAMBDA fr :
                      IF tr.thrown THEN tr
                      ELSE IF fr.thrown THEN fr
                      ELSE Let(RSumMap(tr.val), LAMBDA tCount :
                           Let(RSumMap(fr.val), LAMBDA fCount :
                           Let(RDiv(tCount, RAdd(tCount, fCount)), LAMBDA tw :
                           Let(RDiv(fCount, RAdd(tCount, fCount)), LAMBDA fw :
                               Returned(Blend(tr.val, fr.val, tw, fw))))))))
             ELSE classifyWithMissingData(observations, Branch(tree, v))))

classify(observations, tree, dataMissing) ==
    IF dataMissing THEN classifyWithMissingData(observations, tree)
    ELSE classifyWithoutMissingData(observations, tree)

-----------------------------------------------------------------------------
(* The tables, thresholds and observations the calls are made with *)

\* the most rows of a one-column table, of a table whose column mixes numbers
\* and strings, and of a two-column table
MaxRows == 3
MaxMixedRows == 2
MaxWideRows == 2

\* the rows of `columns` cells and a target
RowsOf(cells, targets, columns) ==
    {Append(features, target) : features \in [1..columns -> cells], target \in targets}

\* the tables of at most maxRows such rows, in every order
Tables(cells, targets, columns, maxRows) ==
    UNION {[1..n -> RowsOf(cells, targets, columns)] : n \in 0..maxRows}

Labels == {Str("A"), Str("B")}

\* one numeric column and a numeric target: two classes to entropy and gini,
\* two values to variance
NumericTables == Tables({Num(1), Num(2), Num(3)}, {Num(1), Num(2)}, 1, MaxRows)

\* one column of a number, words and a numeral written as a string
MixedTables == Tables({Num(3), Str("2"), Str("a"), Str("b")}, Labels, 1, MaxMixedRows)

\* two numeric columns
WideTables == Tables({Num(1), Num(2)}, Labels, 2, MaxWideRows)

\* the four rows of the end-to-end example
ExampleTable ==
    <<<<Num(1), Str("A")>>, <<Num(2), Str("A")>>, <<Num(3), Str("B")>>, <<Num(4), Str("B")>>>>

\* the thresholds prune is called with (0.8 is the one main passes)
MinGains == {RInt(0), RFrac(1, 2), RFrac(4, 5)}

\* a row's features, the cells at the positions in `missing` replaced by null
Observation(row, missing) ==
    [i \in 1..(Len(row) - 1) |-> IF i \in missing THEN Null ELSE row[i]]

\* the observations classify is called with: each row of the table, whole or
\* with some values missing (for the table of no rows, a value and none)
Observations(table) ==
    IF table = <<>> THEN {<<Num(1)>>, <<Null>>}
    ELSE {Observation(table[i], missing) :
            i \in 1..Len(table), missing \in SUBSET (1..(Len(table[1]) - 1))}

-----------------------------------------------------------------------------
(* The state: a table, the tree built from it, and the call being looked at *)

VARIABLES
    rows,       \* the dataset
    tree,       \* the tree grown from it, undefined before
    call        \* the call that has just returned or thrown: its arguments
                \* and what it did; NoCall between calls

vars == <<rows, tree, call>>

NoCall ==
    [op |-> "", evaluationFunction |-> "", minGain |-> RZero, observations |-> <<>>,
     dataMissing |-> FALSE, thrown |-> "", result |-> <<>>, events |-> <<>>,
     before |-> Undefined]

Init ==
    /\ \/ rows \in NumericTables
       \/ rows \in MixedTables
       \/ rows \in WideTables
       \/ rows = ExampleTable
    /\ tree = Undefined
    /\ call = NoCall

\* decisionTree = growDecisionTreeFrom(rows, evaluationFunction)
Grow(evaluationFunction) ==
    /\ call.op = ""
    /\ tree.js = "undefined"
    /\ LET r == growDecisionTreeFrom(rows, evaluationFunction)
       IN  /\ tree' = IF r.thrown THEN tree ELSE r.val
           /\ call' = [NoCall EXCEPT !.op = "grow", !.evaluationFunction = evaluationFunction,
                                     !.thrown = IF r.thrown THEN r.val ELSE ""]
    /\ UNCHANGED rows

\* prune(decisionTree, minGain, evaluationFunction): the tree is changed in
\* place, also by a call that throws part of the way
Prune(minGain, evaluationFunction) ==
    /\ call.op = ""
    /\ IsObject(tree)
    /\ LET r == prune(tree, minGain, evaluationFunction, <<>>)
       IN  /\ tree' = r.tree
           /\ call' = [NoCall EXCEPT !.op = "prune", !.evaluationFunction = evaluationFunction,
                                     !.minGain = minGain, !.thrown = r.thrown,
                                     !.events = r.events, !.before = tree]
    /\ UNCHANGED rows

\* classify(observations, decisionTree, dataMissing)
Classify(observations, dataMissing) ==
    /\ call.op = ""
    /\ IsObject(tree)
    /\ LET r == classify(observations, tree, dataMissing)
       IN  call' = [NoCall EXCEPT !.op = "classify", !.observations = observations,
                                  !.dataMissing = dataMissing,
                                  !.thrown = IF r.thrown THEN r.val ELSE "",
                                  !.result = IF r.thrown THEN <<>> ELSE r.val,
                                  !.before = tree]
    /\ UNCHANGED <<rows, tree>>

\* the caller goes on to its next statement
Continue ==
    /\ call.op # ""
    /\ call' = NoCall
    /\ UNCHANGED <<rows, tree>>

Next ==
    \/ \E evaluationFunction \in EvaluationFunction : Grow(evaluationFunction)
    \/ \E minGain \in MinGains, evaluationFunction \in EvaluationFunction :
          Prune(minGain, evaluationFunction)
    \/ \E observations \in Observations(rows), dataMissing \in BOOLEAN :
          Classify(observations, dataMissing)
    \/ Continue

Spec == Init /\ [][Next]_vars

-----------------------------------------------------------------------------
\* Reading a tree: nodes are named by the path of branches from the root.

BranchNames == {"trueBranch", "falseBranch"}

Child(node, name) == IF name = "trueBranch" THEN node.trueBranch ELSE node.falseBranch

HasChild(node) == IsObject(node.trueBranch) \/ IsObject(node.falseBranch)

\* Leaf: results is set and the node has no children
IsLeaf(node) == Truthy(node.results) /\ ~HasChild(node)

\* Internal: both children are present and results is not set
IsInternal(node) ==
    IsObject(node.trueBranch) /\ IsObject(node.falseBranch) /\ ~Truthy(node.results)

RECURSIVE Paths(_)
Paths(node) ==
    {<<>>} \cup UNION {{<<name>> \o p : p \in Paths(Child(node, name))} :
                       name \in {b \in BranchNames : IsObject(Child(node, b))}}

RECURSIVE NodeAt(_, _)
NodeAt(node, path) ==
    IF path = <<>> THEN node ELSE NodeAt(Child(node, Head(path)), Tail(path))

RECURSIVE Total(_)
Total(counts) ==
    IF DOMAIN counts = {} THEN 0
    ELSE LET k == CHOOSE key \in DOMAIN counts : TRUE
         IN counts[k] + Total([j \in DOMAIN counts \ {k} |-> counts[j]])

RECURSIVE LeafTotal(_)
LeafTotal(node) ==
    IF Truthy(node.results) THEN Total(node.results.map)
    ELSE (IF IsObject(node.trueBranch) THEN LeafTotal(node.trueBranch) ELSE 0)
         + (IF IsObject(node.falseBranch) THEN LeafTotal(node.falseBranch) ELSE 0)

\* the rows of the table that the build sent to the node at path
RECURSIVE RowsAt(_, _, _)
RowsAt(node, table, path) ==
    IF path = <<>> THEN table
    ELSE Let(divideSet(table, node.col, node.value), LAMBDA sets :
             RowsAt(Child(node, Head(path)),
                    IF Head(path) = "trueBranch" THEN sets[1] ELSE sets[2],
                    Tail(path)))

IsPrefix(p, q) == Len(p) <= Len(q) /\ SubSeq(q, 1, Len(p)) = p

IsProperPrefix(p, q) == Len(p) < Len(q) /\ IsPrefix(p, q)

Collapsed(event) == event.after # event.node

\* the node is the tree grow returns for rows with the metric
GrownWith(node, metric) ==
    LET r == growDecisionTreeFrom(rows, metric)
    IN  ~r.thrown /\ node = r.val

\* the node is a tree grow returned for rows: no prune has changed it
AsGrown(node) == \E metric \in EvaluationFunction : GrownWith(node, metric)

-----------------------------------------------------------------------------
\* C1: in every tree returned by grow, and after any sequence of prune calls
\* on it, the counts of all leaves add up to the number of rows of the
\* dataset the tree was grown from.
LeafCountsSumToRows == IsObject(tree) => LeafTotal(tree) = Len(rows)

\* a prune has merged two leaves of a tree grown from three rows
LeafCountsAfterCollapse ==
    /\ call.op = "prune" /\ call.thrown = ""
    /\ \E i \in 1..Len(call.events) : Collapsed(call.events[i])
    /\ Len(rows) = 3
    /\ LeafTotal(tree) = 3

-----------------------------------------------------------------------------
\* the gain of one candidate, as the weighted drop of the metric
WeightedDrop(R, metric, col, value) ==
    Let(divideSet(R, col, value), LAMBDA sets :
        RSub(RSub(Evaluate(metric, R).val,
                  RMul(RFrac(Len(sets[1]), Len(R)), Evaluate(metric, sets[1]).val)),
             RMul(RFrac(Len(sets[2]), Len(R)), Evaluate(metric, sets[2]).val)))

\* C2: the split stored in an internal node built from row set R has a gain
\* strictly greater than 0, and no column and value occurring in R has a
\* strictly larger gain.
ChosenSplitHasBestGain ==
    (call.op = "grow" /\ call.thrown = "") =>
        \A p \in Paths(tree) :
            LET node == NodeAt(tree, p)
                R == RowsAt(tree, rows, p)
                chosen == WeightedDrop(R, call.evaluationFunction, node.col, node.value)
            IN  IsInternal(node) =>
                    /\ RGreater(chosen, RZero)
                    /\ \A c \in 0..(Len(R[1]) - 2), i \in 1..Len(R) :
                           ~RGreater(WeightedDrop(R, call.evaluationFunction, c, R[i][c + 1]), chosen)

\* grow chose between two candidates of different positive gain
ChosenAmongUnequalGains ==
    /\ call.op = "grow" /\ call.thrown = ""
    /\ IsInternal(tree)
    /\ \E i \in 1..Len(rows) :
           /\ RGreater(WeightedDrop(rows, call.evaluationFunction, 0, rows[i][1]), RZero)
           /\ RLess(WeightedDrop(rows, call.evaluationFunction, 0, rows[i][1]),
                    WeightedDrop(rows, call.evaluationFunction, tree.col, tree.value))

-----------------------------------------------------------------------------
\* ascending order of values of one kind: numbers by size, strings by text
StringOrder == <<"2", "A", "B", "a", "b">>

Position(s) == CHOOSE i \in 1..Len(StringOrder) : StringOrder[i] = s

Ascending(a, b) ==
    IF a.js = "number" /\ b.js = "number" THEN a.n <= b.n
    ELSE IF a.js = "string" /\ b.js = "string" THEN Position(a.s) <= Position(b.s)
    ELSE TRUE

\* C3: among the candidates with the best gain, the one chosen is the first
\* by column, and within the column the first in ascending value order,
\* whatever the order of the rows, in string-valued columns too.
TieGoesToFirstInAscendingOrder ==
    (call.op = "grow" /\ call.thrown = "") =>
        \A p \in Paths(tree) :
            LET node == NodeAt(tree, p)
                R == RowsAt(tree, rows, p)
                chosen == WeightedDrop(R, call.evaluationFunction, node.col, node.value)
            IN  IsInternal(node) =>
                    \A c \in 0..(Len(R[1]) - 2), i \in 1..Len(R) :
                        LET sets == divideSet(R, c, R[i][c + 1])
                        IN  (/\ Len(sets[1]) # 0 /\ Len(sets[2]) # 0
                             /\ WeightedDrop(R, call.evaluationFunction, c, R[i][c + 1]) = chosen)
                            => \/ node.col < c
                               \/ node.col = c /\ Ascending(node.value, R[i][c + 1])

-----------------------------------------------------------------------------
ExactlyLeafOrInternal(node) ==
    /\ IsLeaf(node) \/ IsInternal(node)
    /\ ~(IsLeaf(node) /\ IsInternal(node))

\* C4, as stated: every node of a tree returned by grow, the tree of the
\* empty dataset included, and of such a tree after any prune calls, is
\* either a leaf or an internal node, never both and never neither.
EveryNodeLeafOrInternal ==
    IsObject(tree) => \A p \in Paths(tree) : ExactlyLeafOrInternal(NodeAt(tree, p))

\* C4, amended: the same, for the trees grown from a dataset with at least
\* one row.
EveryNodeLeafOrInternalUnlessEmpty ==
    (IsObject(tree) /\ Len(rows) > 0) =>
        \A p \in Paths(tree) : ExactlyLeafOrInternal(NodeAt(tree, p))

\* a prune has turned the internal root of a grown tree into a leaf
RootTurnedIntoLeaf ==
    /\ call.op = "prune"
    /\ IsInternal(call.before)
    /\ IsLeaf(tree)
    /\ tree.trueBranch = Null /\ tree.falseBranch = Null

-----------------------------------------------------------------------------
\* the label multisets of two leaves, added label by label
LabelSum(t, f) ==
    [k \in DOMAIN t \cup DOMAIN f |->
        (IF k \in DOMAIN t THEN t[k] ELSE 0) + (IF k \in DOMAIN f THEN f[k] ELSE 0)]

\* delta of two leaves: metric of the combined labels minus the two parts
LeafDelta(t, f, metric) ==
    Let(PseudoRows(t), LAMBDA tb :
    Let(PseudoRows(f), LAMBDA fb :
    Let(RFrac(Len(tb), Len(tb) + Len(fb)), LAMBDA p :
        RSub(RSub(Evaluate(metric, tb \o fb).val, RMul(p, Evaluate(metric, tb).val)),
             RMul(RSub(RInt(1), p), Evaluate(metric, fb).val)))))

\* C5: prune collapses a node only if both children are leaves at that
\* moment and delta < minGain; the new leaf has no children and carries the
\* label-wise sum of the two result sets, so its total is the sum of the two
\* totals; with delta >= minGain, or with a child that is not a leaf, the
\* node stays as it was.
CollapseOnlyBelowMinGain ==
    call.op = "prune" =>
        /\ \A i \in 1..Len(call.events) :
               LET event == call.events[i]
                   t == event.node.trueBranch
                   f == event.node.falseBranch
                   delta == LeafDelta(t.results.map, f.results.map,
                                      call.evaluationFunction)
               IN  /\ IsLeaf(t) /\ IsLeaf(f)
                   /\ event.path \in Paths(tree) => NodeAt(tree, event.path) = event.after
                   /\ Collapsed(event) =>
                          /\ RLess(delta, call.minGain)
                          /\ IsLeaf(event.after)
                          /\ event.after.results.map = LabelSum(t.results.map, f.results.map)
                          /\ Total(event.after.results.map)
                                 = Total(t.results.map) + Total(f.results.map)
                   /\ ~RLess(delta, call.minGain) => ~Collapsed(event)
        /\ \A p \in Paths(call.before) \cap Paths(tree) :
               (IsInternal(NodeAt(call.before, p)) /\ ~IsInternal(NodeAt(tree, p)))
                   => \E i \in 1..Len(call.events) :
                          call.events[i].path = p /\ Collapsed(call.events[i])

\* one prune call met delta = minGain at a node and left that node alone
ThresholdLeftAlone ==
    /\ call.op = "prune" /\ call.thrown = ""
    /\ \E i \in 1..Len(call.events) :
           /\ call.events[i].delta = call.minGain
           /\ ~Collapsed(call.events[i])

\* two leaves holding different labels have been merged into one leaf
TwoLabelsMerged ==
    /\ call.op = "prune" /\ call.thrown = ""
    /\ \E i \in 1..Len(call.events) :
           /\ Collapsed(call.events[i])
           /\ Cardinality(DOMAIN call.events[i].after.results.map) = 2

-----------------------------------------------------------------------------
\* the leaf the build put a row in: follow divideSet's test at each node
RECURSIVE BuildLeaf(_, _)
BuildLeaf(node, row) ==
    IF Truthy(node.results) THEN node
    ELSE BuildLeaf(IF Matches(row, node.col, node.value)
                   THEN node.trueBranch ELSE node.falseBranch, row)

\* C6: exact classification of the features of a row of D, in a tree grown
\* from D, takes at every node the branch divideSet took for that row, so it
\* returns the results of the leaf that holds the row, with a count of at
\* least 1 for the row's label; columns may mix numbers and strings.
ExactClassifyFollowsBuild ==
    (/\ call.op = "classify" /\ ~call.dataMissing
     /\ Len(rows) > 0 /\ AsGrown(tree)) =>
        \A i \in 1..Len(rows) :
            Observation(rows[i], {}) = call.observations =>
                /\ call.thrown = ""
                /\ call.result = Distribution(BuildLeaf(tree, rows[i]).results)
                /\ PropertyKey(Target(rows[i])) \in DOMAIN call.result
                /\ ~RLess(call.result[PropertyKey(Target(rows[i]))], RInt(1))

-----------------------------------------------------------------------------
\* the blend of two child classifications, weighted by their totals
RECURSIVE RTotal(_)
RTotal(dist) ==
    IF DOMAIN dist = {} THEN RZero
    ELSE LET k == CHOOSE key \in DOMAIN dist : TRUE
         IN RAdd(dist[k], RTotal([j \in DOMAIN dist \ {k} |-> dist[j]]))

WeightedBlend(tr, fr) ==
    LET tw == RDiv(RTotal(tr), RAdd(RTotal(tr), RTotal(fr)))
        fw == RSub(RInt(1), tw)
    IN  [k \in DOMAIN tr \cup DOMAIN fr |->
            RAdd(IF k \in DOMAIN tr THEN RMul(tr[k], tw) ELSE RZero,
                 IF k \in DOMAIN fr THEN RMul(fr[k], fw) ELSE RZero)]

\* C7: with missing-data handling on, an internal node whose column value is
\* missing classifies both children and returns, for each label of either,
\* tr[label] * tw + fr[label] * fw with tw = sum(tr) / (sum(tr) + sum(fr))
\* and fw = 1 - tw; a root with leaves {B: 2} and {A: 2} gives {A: 1, B: 1};
\* the tree, the children's results included, is not modified.
MissingValueBlendsChildren ==
    (call.op = "classify" /\ call.dataMissing /\ call.thrown = "") =>
        /\ tree = call.before
        /\ \A p \in Paths(tree) :
               LET node == NodeAt(tree, p)
                   here == classifyWithMissingData(call.observations, node).val
                   tr == classifyWithMissingData(call.observations, node.trueBranch).val
                   fr == classifyWithMissingData(call.observations, node.falseBranch).val
               IN  (IsInternal(node) /\ At(call.observations, node.col) = Null) =>
                       /\ here = WeightedBlend(tr, fr)
                       /\ p = <<>> => call.result = here
                       /\ (/\ IsLeaf(node.trueBranch) /\ IsLeaf(node.falseBranch)
                           /\ node.trueBranch.results.map = [B |-> 2]
                           /\ node.falseBranch.results.map = [A |-> 2])
                          => here = [A |-> RInt(1), B |-> RInt(1)]

\* the root of the tree of the four-row example was classified with its
\* column missing and gave one A and one B
ExampleBlendsToOneEach ==
    /\ call.op = "classify" /\ call.dataMissing /\ call.thrown = ""
    /\ rows = ExampleTable
    /\ IsInternal(tree)
    /\ tree.trueBranch.results = [js |-> "object", map |-> [B |-> 2]]
    /\ tree.falseBranch.results = [js |-> "object", map |-> [A |-> 2]]
    /\ call.observations = <<Null>>
    /\ call.result = [A |-> RInt(1), B |-> RInt(1)]

\* a missing value met children of unequal totals, so tw differed from fw
UnequalWeightsBlended ==
    /\ call.op = "classify" /\ call.dataMissing /\ call.thrown = ""
    /\ IsInternal(tree)
    /\ At(call.observations, tree.col) = Null
    /\ IsLeaf(tree.trueBranch) /\ IsLeaf(tree.falseBranch)
    /\ Total(tree.trueBranch.results.map) # Total(tree.falseBranch.results.map)

-----------------------------------------------------------------------------
\* C8: grow on the empty dataset does not throw and returns a node with no
\* results, no children and a summary whose sample count is 0.
EmptyDatasetGivesZeroSummary ==
    (call.op = "grow" /\ Len(rows) = 0) =>
        /\ call.thrown = ""
        /\ IsObject(tree)
        /\ ~Truthy(tree.results)
        /\ ~HasChild(tree)
        /\ Get(tree.summary, "samples") = Num(0)

-----------------------------------------------------------------------------
\* C9, as stated: after a node has been collapsed no ancestor is compared
\* or collapsed in the same call: the nodes a prune call collapses had two
\* leaf children already when the call began.
CollapsesOnlyLeavesOfCallStart ==
    call.op = "prune" =>
        \A i \in 1..Len(call.events) :
            /\ Collapsed(call.events[i]) =>
                   /\ IsLeaf(NodeAt(call.before, call.events[i].path).trueBranch)
                   /\ IsLeaf(NodeAt(call.before, call.events[i].path).falseBranch)
            /\ \A j \in 1..Len(call.events) :
                   (j < i /\ Collapsed(call.events[j]))
                       => ~IsProperPrefix(call.events[i].path, call.events[j].path)

\* C9, amended: a prune call compares each node at most once, after the
\* nodes below it, and only when both its children are leaves by then,
\* whether they were leaves when the call began or were collapsed earlier in
\* the same call; so a collapse can be followed by the collapse of the
\* parent, and the call leaves no uncompared node with two leaf children.
CollapsesCascadeUpwards ==
    (call.op = "prune" /\ call.thrown = "") =>
        /\ \A i, j \in 1..Len(call.events) :
               /\ i # j => call.events[i].path # call.events[j].path
               /\ IsProperPrefix(call.events[i].path, call.events[j].path) => j < i
        /\ \A i \in 1..Len(call.events) :
               \A name \in BranchNames :
                   LET path == Append(call.events[i].path, name)
                   IN  /\ IsLeaf(Child(call.events[i].node, name))
                       /\ \/ IsLeaf(NodeAt(call.before, path))
                          \/ \E j \in 1..(i - 1) :
                                 /\ call.events[j].path = path
                                 /\ Collapsed(call.events[j])
        /\ \A p \in Paths(tree) :
               (/\ IsInternal(NodeAt(tree, p))
                /\ IsLeaf(NodeAt(tree, p).trueBranch)
                /\ IsLeaf(NodeAt(tree, p).falseBranch))
                   => \E i \in 1..Len(call.events) :
                          call.events[i].path = p /\ ~Collapsed(call.events[i])

\* one call collapsed a node and then its parent
ParentCollapsedAfterChild ==
    /\ call.op = "prune" /\ call.thrown = ""
    /\ \E i, j \in 1..Len(call.events) :
           /\ i < j
           /\ IsProperPrefix(call.events[j].path, call.events[i].path)
           /\ Collapsed(call.events[i]) /\ Collapsed(call.events[j])

-----------------------------------------------------------------------------
\* C10: prune with any minGain and with the metric of the build does not
\* throw on a tree grown from a non-empty dataset, a tree that is one leaf
\* included, which it leaves unchanged; this holds for variance as well.
PruneOfGrownTreeNeverThrows ==
    (/\ call.op = "prune" /\ Len(rows) > 0
     /\ GrownWith(call.before, call.evaluationFunction)) =>
        /\ call.thrown = ""
        /\ IsLeaf(call.before) => tree = call.before

=============================================================================
